---- MODULE Spec2Model ----
(***************************************************************************)
(* TCG card printer: the folder watch (CardImageHandler / FolderMonitor),  *)
(* the per-file pipeline (TCGCardPrinter._process_and_print), the retry    *)
(* sweep (_process_print_queue) and the error classification               *)
(* (ErrorHandler.handle_error), as a state machine of two threads: the     *)
(* main thread (run) and the watchdog observer thread (event handlers).    *)
(***************************************************************************)
EXTENDS Naturals, Integers, Sequences, FiniteSets, TLC

\* ------------------------------------------------------------------ bounds
\* longest print_queue the model explores (the list is unbounded in the code)
MaxQueue == 2
\* most "print_" prefixes a queued path carries (each not-ready pass adds one)
MaxPrefix == 1

\* longest time, in seconds, one getJobs call takes in the model
MaxLatency == 1

\* largest source image the model transforms, in pixels
MaxWidth == 92
MaxHeight == 150

\* calls of print_image the model follows
MaxCalls == 2

\* most file events waiting for the observer thread at one time
MaxEvents == 2

\* calls of handle_error the model follows between two resets
MaxErrors == 12

\* ------------------------------------------------------- program constants
\* CUPS printer-state 3 = idle: is_ready is state == 3
PRINTER_IDLE == 3
\* job-state >= 7: cancelled or aborted
ABORT_THRESHOLD == 7
\* _monitor_print_job(timeout=60)
MONITOR_TIMEOUT == 60
\* time.sleep(2) between polls
POLL_INTERVAL == 2

\* config.TARGET_WIDTH, config.TARGET_HEIGHT
TARGET_WIDTH == 750
TARGET_HEIGHT == 1050
\* ErrorHandler: len(self.last_errors) > 10, self.last_errors[-5:]
LAST_ERRORS_KEPT == 10
RECENT_ERRORS == 5
\* bits in the significand of a Python float (IEEE 754 binary64)
DOUBLE_PRECISION == 53
\* the arithmetic's digits: binary digits in a limb, and in the integers a
\* limb sequence is multiplied or divided by
LimbBits == 18
SmallBits == 12

\* -------------------------------------------------------------------- data
\* file names dropped into WATCH_FOLDER (all carry a supported suffix); one
\* of them contains the word handle_error looks for in an error's message
Files == {"a.png", "printer.png"}
Threads == {"main", "watch"}

\* A path: pre = 0 is WATCH_FOLDER/name, pre = k > 0 is
\* PROCESSED_FOLDER/print_..print_name with k prefixes.
Path == [name : Files, pre : 0..(MaxPrefix + 1)]
NoPath == [name |-> "", pre |-> 0]
Orig(f) == [name |-> f, pre |-> 0]

\* what a path holds on disk
FileStates == {"absent", "empty", "ok", "bad"}

\* an exception: its class, and whether str(error).lower() contains "printer"
Exc(ty, pr) == [type |-> ty, printer |-> pr]
\* An OSError's message quotes the path; the folders are taken to be named
\* without the word "printer", so the file name decides.
Mentions(p) == p.name = "printer.png"
\* what Image.open raises for a file PIL cannot identify
DecodeError(p) == Exc("UnidentifiedImageError", Mentions(p))
\* what printFile raises: the message is the device's
SubmitErrors == {Exc("IPPError", pr) : pr \in BOOLEAN}
\* what Path.unlink raises for a file that exists
UnlinkErrors(p) == {Exc("PermissionError", Mentions(p)), Exc("OSError", Mentions(p))}
\* what Image.open and Path.unlink raise for a missing file
FileNotFound(p) == Exc("FileNotFoundError", Mentions(p))

\* printer-state as CUPS reports it: 3 idle, 5 stopped
PrinterStates == {PRINTER_IDLE, 5}

\* PrintController._connect against the print service: cups.Connection()
\* raises when the server is down; ValueError when getPrinters() holds
\* neither the configured name nor a name with 'Canon' and 'G3270'
CupsAnswers == {"down", "missing", "found"}

connect(answer) == answer = "found"

VARIABLES
  phase,            \* position of main(): new, initialized, drain, loop, failed, crashed
  running,          \* TCGCardPrinter.running
  listing,          \* names iterdir() has still to yield in process_existing_files
  pc,               \* per thread: position inside run / the handler / _process_and_print
  img,              \* per thread: image_path of the running _process_and_print
  processed_files,  \* CardImageHandler.processed_files
  print_queue,      \* TCGCardPrinter.print_queue
  fs,               \* the file system: Path -> FileStates
  printer,          \* the device's printer-state
  autoDelete,       \* config.AUTO_DELETE_AFTER_PRINT
  handed,           \* history: paths handed to the callback and not failed since
  raised,           \* history: paths whose callback raised into _process_file
  startup,          \* history: names the watch folder held when run() listed it
  drained,          \* history: per name, the hand-overs made by the startup drain
  mon,              \* one run of _monitor_print_job, poll by poll
  pic,              \* one run of ImageProcessor.process_image on a decoded image
  job,              \* the calls of PrintController.print_image and their options
  cups,             \* what the CUPS server answers PrintController._connect
  backlog,          \* history: entries queued when the sweep began, still to be popped
  lastEvent,        \* history: the last file event the handler was given
  events,           \* file events the observer has still to dispatch
  fresh,            \* history: names that became qualifying, not handed over since
  raced,            \* history: appends made between the sweep's test and its pop
  eh                \* the ErrorHandler: error_count, last_errors, and what it was given

pvars == <<phase, running, listing, pc, img, processed_files,
           print_queue, fs, printer, autoDelete>>
hvars == <<handed, raised, startup, drained>>
\* the state of the components that are followed on their own
cvars == <<mon, pic, job>>
\* the print service the process is started against
evars == <<cups>>
\* what the sweep, the event stream and the ErrorHandler are followed with
xvars == <<backlog, lastEvent, events, fresh, raced, eh>>
vars == <<phase, running, listing, pc, img, processed_files,
          print_queue, fs, printer, autoDelete, handed, raised,
          startup, drained, mon, pic, job, cups,
          backlog, lastEvent, events, fresh, raced, eh>>

\* positions inside _process_and_print
InCallback == {"process", "monitor"}

\* ------------------------------------------------------------ pure helpers
\* image_processor.process_image: output_path = PROCESSED_FOLDER / f"print_{input_path.name}"
OutputPath(p) == [name |-> p.name, pre |-> p.pre + 1]

\* ErrorHandler.handle_error: the suggested action it returns
handle_error(e) ==
  IF e.type = "FileNotFoundError" THEN "check_file_path"
  ELSE IF e.type = "PermissionError" THEN "check_permissions"
  ELSE IF e.printer THEN "check_printer"
  ELSE "retry"

\* PrintController.get_printer_status: 'is_ready' is state == 3; when
\* getPrinters raises it returns {'error': ...}, whose .get('is_ready') is None
get_printer_status(raises) ==
  IF raises THEN [error |-> TRUE, is_ready |-> FALSE]
  ELSE [error |-> FALSE, is_ready |-> (printer = PRINTER_IDLE)]

\* What one getJobs call answers for the job: not listed, a failed call, or
\* listed with a job-state (IPP: 3 pending .. 6 stopped, 7 canceled, 8 aborted,
\* 9 completed)
PollAnswers ==
  {[listed |-> FALSE, failed |-> FALSE, state |-> 0],
   [listed |-> FALSE, failed |-> TRUE, state |-> 0]}
  \cup {[listed |-> TRUE, failed |-> FALSE, state |-> s] : s \in 3..9}

\* PrintController.get_job_status: the job's attributes, or None
get_job_status(a) ==
  IF a.failed \/ ~a.listed THEN [none |-> TRUE, state |-> 0]
  ELSE [none |-> FALSE, state |-> a.state]

\* polls that fit in the timeout at one poll per POLL_INTERVAL
MaxPolls == MONITOR_TIMEOUT \div POLL_INTERVAL

\* A device behaviour for one job: `busy` polls answer job-state 5
\* (processing), every later poll answers `last`.
Answer(busy, last, i) ==
  IF i < busy THEN [listed |-> TRUE, failed |-> FALSE, state |-> 5] ELSE last

\* TCGCardPrinter._monitor_print_job from `elapsed` seconds after its start:
\* how the loop ends
RECURSIVE monitor_print_job(_, _, _)
monitor_print_job(elapsed, busy, last) ==
  IF ~(elapsed < MONITOR_TIMEOUT) THEN "TimedOut"
  ELSE LET job_status == get_job_status(Answer(busy, last, elapsed \div POLL_INTERVAL))
       IN IF job_status.none THEN "Completed"
          ELSE IF job_status.state >= ABORT_THRESHOLD THEN "Aborted"
          ELSE monitor_print_job(elapsed + POLL_INTERVAL, busy, last)

\* the ways _monitor_print_job ends over the device behaviours
MonitorOutcomes ==
  {monitor_print_job(0, busy, last) : busy \in 0..MaxPolls, last \in PollAnswers}

\* a narrower except clause, as `except OSError` would be: an IPPError
\* passes through it
CaughtOnlyOSError(e) == e.type # "IPPError"

\* `except Exception as e` of _process_and_print catches every exception
Caught(e) == TRUE

\* the entry _process_and_print queues when the printer is not ready:
\* self.print_queue.append(processed_path)
QueuedWhenNotReady(image_path, processed_path) == processed_path

\* whether _process_and_print goes on to image_path.unlink() after
\* _monitor_print_job ended with `outcome`: the test is the flag alone
DeletesAfter(outcome) == autoDelete

\* an on_created with the membership test of on_modified
CreatedIfUnseen(p) == p \notin processed_files

\* on_created hands every file event on, whatever processed_files holds
CreatedPasses(p) == TRUE

\* on_modified without its membership test
ModifiedAlwaysPasses(p) == TRUE

\* on_modified hands the event on only for a path not in processed_files
ModifiedPasses(p) == p \notin processed_files

\* where control is once _process_and_print has returned to its caller;
\* an observer thread that was told to stop ends after the handler it is in
ReturnPc(t) ==
  IF t = "watch" THEN (IF phase = "stopping" THEN "off" ELSE "idle")
  ELSE IF phase = "drain" THEN "drain" ELSE "sweep"

\* _process_and_print returns normally on thread t
Return(t) ==
  /\ pc' = [pc EXCEPT ![t] = ReturnPc(t)]
  /\ img' = [img EXCEPT ![t] = NoPath]

\* an except clause that only logs
process_file_except_keeps(p) == processed_files' = processed_files

\* the except clause of CardImageHandler._process_file:
\* self.processed_files.discard(file_path)
process_file_except(p) == processed_files' = processed_files \ {p}

\* An exception leaves the callback on thread t and reaches the caller:
\* _process_file discards the path (lines 58-61), process_existing_files
\* logs it (98-99), and from _process_print_queue it reaches run(), whose
\* handler re-raises after stop() (164-168) and main() exits 1.
Uncaught(t) ==
  /\ img' = [img EXCEPT ![t] = NoPath]
  /\ IF t = "watch"
     THEN /\ process_file_except(img[t])
          /\ pc' = [pc EXCEPT ![t] = "idle"]
          /\ UNCHANGED <<phase, running>>
     ELSE IF phase = "drain"
     THEN /\ pc' = [pc EXCEPT ![t] = "drain"]
          /\ UNCHANGED <<phase, running, processed_files>>
     ELSE /\ pc' = [pc EXCEPT ![t] = "stopped"]
          /\ phase' = "crashed"
          /\ running' = FALSE
          /\ UNCHANGED processed_files

\* the except clause of _process_and_print (lines 97-102) for the exception
\* e: image_path is appended when handle_error answers "retry"
ExceptClause(t, e) ==
  /\ IF handle_error(e) = "retry"
     THEN /\ Len(print_queue) < MaxQueue
          /\ print_queue' = Append(print_queue, img[t])
     ELSE UNCHANGED print_queue
  /\ Return(t)

\* _process_and_print raises e on thread t: the except clause (97-102)
\* appends image_path when handle_error answers "retry", and returns
Raise(t, e) ==
  IF Caught(e)
  THEN /\ ExceptClause(t, e)
       /\ UNCHANGED <<phase, running, processed_files>>
  ELSE /\ Uncaught(t)
       /\ UNCHANGED print_queue

\* the caller invokes image_processor_callback(path) on thread t
Call(t, path) ==
  /\ pc' = [pc EXCEPT ![t] = "process"]
  /\ img' = [img EXCEPT ![t] = path]

\* the components followed on their own are not running
MonOff == [pc |-> "off", elapsed |-> 0, polls |-> 0,
           seen |-> [listed |-> FALSE, failed |-> FALSE, state |-> 0],
           outcome |-> "none"]
PicOff == [pc |-> "off", mode |-> "none", size |-> <<0, 0>>,
           branch |-> "none", scaled |-> <<0, 0>>,
           box |-> [left |-> 0, top |-> 0, right |-> 0, bottom |-> 0],
           out |-> <<0, 0>>]
NoOptions == [k \in {} |-> ""]
JobOff == [calls |-> 0, options |-> NoOptions, print_options |-> NoOptions,
           earlier |-> NoOptions]
ComponentsOff == mon = MonOff /\ pic = PicOff /\ job = JobOff

\* no sweep has begun, no event was dispatched or is pending, and the
\* ErrorHandler is as ErrorHandler.__init__ leaves it
NoEvent == [kind |-> "none", path |-> NoPath, seen |-> FALSE,
            qualified |-> FALSE, invoked |-> FALSE]
EhOff == [error_count |-> 0, last_errors |-> <<>>, given |-> <<>>]
ExtrasOff ==
  /\ backlog = 0
  /\ lastEvent = NoEvent
  /\ events = <<>>
  /\ fresh = {}
  /\ raced = 0
  /\ eh = EhOff

\* ------------------------------------------------------------------- Init
\* the state after TCGCardPrinter() is constructed; the files on disk, the
\* device and the configuration are whatever the environment holds
Init ==
  /\ phase = "new"
  /\ running = FALSE
  /\ listing = {}
  /\ pc = [t \in Threads |-> "off"]
  /\ img = [t \in Threads |-> NoPath]
  /\ processed_files = {}
  /\ print_queue = <<>>
  /\ fs \in {f \in [Path -> FileStates] : \A p \in Path : p.pre > 0 => f[p] = "absent"}
  /\ printer \in PrinterStates
  /\ autoDelete \in BOOLEAN
  /\ cups \in CupsAnswers
  /\ handed = {}
  /\ raised = {}
  /\ startup = {}
  /\ drained = [f \in Files |-> 0]
  /\ ComponentsOff
  /\ ExtrasOff

\* ------------------------------------------------------------ main thread
\* an initialize that logs the failed connection and goes on
InitializedAnyway(connected) == "initialized"

\* initialize returns when PrintController() connected; when _connect
\* raised (no CUPS connection, or the printer is not among getPrinters())
\* it re-raises and main() ends in sys.exit(1)
Initialized(connected) == IF connected THEN "initialized" ELSE "failed"

\* the exit status of the process, once it has ended: main() exits 1 from
\* its except clause, _signal_handler exits 0, a run() that returns ends
\* the process with 0
ExitCode ==
  IF phase \in {"failed", "crashed"} THEN 1
  ELSE IF phase = "exited" THEN 0
  ELSE -1

\* TCGCardPrinter.initialize: the printer connection is made or it raises;
\* setup_custom_paper_size raises FileNotFoundError where there is no
\* lpadmin to run, and initialize re-raises that as well
initialize ==
  /\ phase = "new"
  /\ \E lpadmin \in BOOLEAN :
       phase' = IF lpadmin THEN Initialized(connect(cups)) ELSE "failed"
  /\ UNCHANGED <<running, listing, pc, img, processed_files, print_queue, fs,
                 printer, autoDelete>>

\* TCGCardPrinter.run up to the directory listing of process_existing_files
run ==
  /\ phase = "initialized"
  /\ running' = TRUE
  /\ phase' = "drain"
  /\ listing' = {f \in Files : fs[Orig(f)] # "absent"}
  /\ pc' = [pc EXCEPT !["main"] = "drain"]
  /\ UNCHANGED <<img, processed_files, print_queue, fs, printer, autoDelete>>

\* FolderMonitor.process_existing_files: one iteration of the for loop
process_existing_files ==
  /\ phase = "drain"
  /\ pc["main"] = "drain"
  /\ \E f \in listing :
       /\ listing' = listing \ {f}
       /\ IF fs[Orig(f)] # "absent"
          THEN Call("main", Orig(f))
          ELSE UNCHANGED <<pc, img>>
  /\ UNCHANGED <<phase, running, processed_files, print_queue, fs, printer,
                 autoDelete>>

\* a start that does not wait for the for loop of the drain to end
DrainCutShort == TRUE

\* run calls folder_monitor.start() when process_existing_files has
\* returned: its for loop has gone through the whole listing
DrainDone == listing = {}

\* FolderMonitor.start, after the drain: the observer thread starts and run
\* enters its main loop.  An observer whose stop() was called before its
\* start() may dispatch events or end at once.
start ==
  /\ phase = "drain"
  /\ pc["main"] = "drain"
  /\ DrainDone
  /\ phase' = "loop"
  /\ \E observing \in (IF running THEN {"idle"} ELSE {"idle", "off"}) :
       pc' = [pc EXCEPT !["main"] = "loop", !["watch"] = observing]
  /\ UNCHANGED <<running, listing, img, processed_files, print_queue, fs,
                 printer, autoDelete>>

\* the head of the while loop of _process_print_queue with the status just
\* read: pop(0) and reprocess while the queue is non-empty and it says ready
SweepStep(status) ==
  IF print_queue # <<>> /\ status.is_ready
  THEN /\ print_queue' = Tail(print_queue)
       /\ Call("main", Head(print_queue))
  ELSE /\ pc' = [pc EXCEPT !["main"] = "loop"]
       /\ UNCHANGED <<print_queue, img>>

\* run's main loop: one call of _process_print_queue up to its first item
\* (or its early return), every 5 seconds while running
process_print_queue ==
  /\ phase = "loop"
  /\ pc["main"] = "loop"
  /\ running
  /\ \E raises \in BOOLEAN : SweepStep(get_printer_status(raises))
  /\ UNCHANGED <<phase, running, listing, processed_files, fs, printer,
                 autoDelete>>

\* _process_print_queue after an item returned: the status is read again
\* and the while condition decides
process_print_queue_next ==
  /\ pc["main"] = "sweep"
  /\ \E raises \in BOOLEAN : SweepStep(get_printer_status(raises))
  /\ UNCHANGED <<phase, running, listing, processed_files, fs, printer,
                 autoDelete>>

\* ----------------------------------------------------------- watch thread
\* CardImageHandler._process_file(file_path) up to the call of the callback
process_file(p) ==
  IF fs[p] \in {"absent", "empty"}
  THEN UNCHANGED <<pc, img, processed_files>>
  ELSE /\ processed_files' = processed_files \cup {p}
       /\ Call("watch", p)

\* CardImageHandler.on_created for a file event
on_created(f) ==
  /\ pc["watch"] = "idle"
  /\ IF CreatedPasses(Orig(f))
     THEN process_file(Orig(f))
     ELSE UNCHANGED <<pc, img, processed_files>>
  /\ UNCHANGED <<phase, running, listing, print_queue, fs, printer,
                 autoDelete>>

\* CardImageHandler.on_modified for a file event
on_modified(f) ==
  /\ pc["watch"] = "idle"
  /\ IF ModifiedPasses(Orig(f))
     THEN process_file(Orig(f))
     ELSE UNCHANGED <<pc, img, processed_files>>
  /\ UNCHANGED <<phase, running, listing, print_queue, fs, printer,
                 autoDelete>>

\* ---------------------------------------- _process_and_print, on a thread
\* process_image raises e: the file is missing, or PIL cannot identify it
TransformFails(t, e) ==
  /\ pc[t] = "process"
  /\ \/ fs[img[t]] = "absent" /\ e = FileNotFound(img[t])
     \/ fs[img[t]] \in {"empty", "bad"} /\ e = DecodeError(img[t])
  /\ Raise(t, e)
  /\ UNCHANGED <<listing, fs, printer, autoDelete>>

\* process_image writes the artifact, the printer is not ready: the entry
\* is queued and the callback returns
QueuedNotReady(t, status) ==
  /\ pc[t] = "process"
  /\ fs[img[t]] = "ok"
  /\ ~status.is_ready
  /\ Len(print_queue) < MaxQueue
  /\ QueuedWhenNotReady(img[t], OutputPath(img[t])).pre <= MaxPrefix
  /\ fs' = [fs EXCEPT ![OutputPath(img[t])] = "ok"]
  /\ print_queue' =
       Append(print_queue, QueuedWhenNotReady(img[t], OutputPath(img[t])))
  /\ Return(t)
  /\ UNCHANGED <<phase, running, listing, processed_files, printer, autoDelete>>

\* the artifact is written, the printer is ready, printFile returns a job id
Submitted(t, status) ==
  /\ pc[t] = "process"
  /\ fs[img[t]] = "ok"
  /\ status.is_ready
  /\ fs' = [fs EXCEPT ![OutputPath(img[t])] = "ok"]
  /\ pc' = [pc EXCEPT ![t] = "monitor"]
  /\ UNCHANGED <<phase, running, listing, img, processed_files, print_queue,
                 printer, autoDelete>>

\* the artifact is written, the printer is ready, printFile raises e
SubmitFails(t, status, e) ==
  /\ pc[t] = "process"
  /\ fs[img[t]] = "ok"
  /\ status.is_ready
  /\ e \in SubmitErrors
  /\ fs' = [fs EXCEPT ![OutputPath(img[t])] = "ok"]
  /\ Raise(t, e)
  /\ UNCHANGED <<listing, printer, autoDelete>>

\* _process_and_print from its start to the submission (lines 73-87, with
\* the except clause)
process_and_print(t) ==
  \/ \E e \in {DecodeError(img[t]), FileNotFound(img[t])} : TransformFails(t, e)
  \/ \E raises \in BOOLEAN : QueuedNotReady(t, get_printer_status(raises))
  \/ \E raises \in BOOLEAN : Submitted(t, get_printer_status(raises))
  \/ \E raises \in BOOLEAN, e \in SubmitErrors :
       SubmitFails(t, get_printer_status(raises), e)

\* _monitor_print_job ended with `outcome` and nothing is deleted
Finished(t, outcome) ==
  /\ pc[t] = "monitor"
  /\ ~DeletesAfter(outcome)
  /\ Return(t)
  /\ UNCHANGED <<phase, running, listing, processed_files, print_queue, fs,
                 printer, autoDelete>>

\* _monitor_print_job ended with `outcome` and image_path.unlink() removes
\* the file
Deleted(t, outcome) ==
  /\ pc[t] = "monitor"
  /\ DeletesAfter(outcome)
  /\ fs[img[t]] # "absent"
  /\ fs' = [fs EXCEPT ![img[t]] = "absent"]
  /\ Return(t)
  /\ UNCHANGED <<phase, running, listing, processed_files, print_queue,
                 printer, autoDelete>>

\* _monitor_print_job ended with `outcome` and image_path.unlink() raises e
DeleteFails(t, outcome, e) ==
  /\ pc[t] = "monitor"
  /\ DeletesAfter(outcome)
  /\ \/ fs[img[t]] = "absent" /\ e = FileNotFound(img[t])
     \/ fs[img[t]] # "absent" /\ e \in UnlinkErrors(img[t])
  /\ Raise(t, e)
  /\ UNCHANGED <<listing, fs, printer, autoDelete>>

\* _process_and_print from the job's monitoring to its end (lines 89-95,
\* with the except clause)
monitor_and_delete(t) ==
  \/ \E outcome \in MonitorOutcomes : Finished(t, outcome)
  \/ \E outcome \in MonitorOutcomes : Deleted(t, outcome)
  \/ \E outcome \in MonitorOutcomes :
       \E e \in UnlinkErrors(img[t]) \cup {FileNotFound(img[t])} :
         DeleteFails(t, outcome, e)

\* ------------------------------------------------------------ environment
\* a file of the watch folder is written, truncated, replaced or removed
FsChange ==
  /\ \E f \in Files, s \in FileStates :
       /\ fs[Orig(f)] # s
       /\ fs' = [fs EXCEPT ![Orig(f)] = s]
  /\ UNCHANGED <<phase, running, listing, pc, img, processed_files,
                 print_queue, printer, autoDelete>>

\* the device changes its printer-state
DeviceChange ==
  /\ \E s \in PrinterStates : s # printer /\ printer' = s
  /\ UNCHANGED <<phase, running, listing, pc, img, processed_files,
                 print_queue, fs, autoDelete>>

\* ----------------------------------------------------------- the program
\* a step that records nothing and leaves the components alone
NoHistory == UNCHANGED <<hvars, cvars, evars, xvars>>

Next ==
  \/ initialize /\ NoHistory
  \/ run /\ NoHistory
  \/ process_existing_files /\ NoHistory
  \/ start /\ NoHistory
  \/ process_print_queue /\ NoHistory
  \/ process_print_queue_next /\ NoHistory
  \/ \E f \in Files : on_created(f) /\ NoHistory
  \/ \E f \in Files : on_modified(f) /\ NoHistory
  \/ \E t \in Threads : process_and_print(t) /\ NoHistory
  \/ \E t \in Threads : monitor_and_delete(t) /\ NoHistory
  \/ FsChange /\ NoHistory
  \/ DeviceChange /\ NoHistory

Spec == Init /\ [][Next]_vars

\* ------------------------------------------- the program with its history
\* `handed` and `raised` record what no variable of the program keeps: the
\* paths handed to the callback whose processing has not failed since, and
\* the paths whose callback raised into _process_file.

\* a step that may invoke the callback on thread t
Hands(t) ==
  /\ handed' = IF pc[t] # "process" /\ pc'[t] = "process"
               THEN handed \cup {img'[t]} ELSE handed
  /\ raised' = raised
  /\ drained' = IF phase = "drain" /\ pc[t] # "process" /\ pc'[t] = "process"
                THEN [drained EXCEPT ![img'[t].name] = @ + 1] ELSE drained
  /\ UNCHANGED <<startup, cvars, evars, xvars>>

\* the steps of _process_and_print on thread t in which processing fails
Fails(t) ==
  \/ \E e \in {DecodeError(img[t]), FileNotFound(img[t])} : TransformFails(t, e)
  \/ \E raises \in BOOLEAN, e \in SubmitErrors :
       SubmitFails(t, get_printer_status(raises), e)
  \/ \E outcome \in MonitorOutcomes :
       \E e \in UnlinkErrors(img[t]) \cup {FileNotFound(img[t])} :
         DeleteFails(t, outcome, e)

\* the steps of _process_and_print on thread t in which nothing fails
Passes(t) ==
  \/ \E raises \in BOOLEAN : QueuedNotReady(t, get_printer_status(raises))
  \/ \E raises \in BOOLEAN : Submitted(t, get_printer_status(raises))
  \/ \E outcome \in MonitorOutcomes : Finished(t, outcome)
  \/ \E outcome \in MonitorOutcomes : Deleted(t, outcome)

\* processing of img[t] failed in this step, inside _process_and_print
Failed(t) ==
  /\ handed' = handed \ {img[t]}
  /\ raised' = raised
  /\ UNCHANGED <<startup, drained, cvars, evars, xvars>>

\* run lists the watch folder: what it holds at this moment is recorded
Listed ==
  /\ startup' = {f \in Files : fs[Orig(f)] # "absent"}
  /\ UNCHANGED <<handed, raised, drained, cvars, evars, xvars>>

\* The program and its history, with the watch folder as the program
\* itself changes it.
NextHistory ==
  \/ initialize /\ NoHistory
  \/ run /\ Listed
  \/ process_existing_files /\ Hands("main")
  \/ start /\ NoHistory
  \/ process_print_queue /\ Hands("main")
  \/ process_print_queue_next /\ Hands("main")
  \/ \E f \in Files : on_created(f) /\ Hands("watch")
  \/ \E f \in Files : on_modified(f) /\ Hands("watch")
  \/ \E t \in Threads : Fails(t) /\ Failed(t)
  \/ \E t \in Threads : Passes(t) /\ NoHistory
  \/ DeviceChange /\ NoHistory

SpecHistory == Init /\ [][NextHistory]_vars

\* ------------------------------------------------- the program and signals
\* SIGINT or SIGTERM is delivered once; Python runs _signal_handler on the
\* main thread, at whatever point the main thread has reached.

\* what FolderMonitor.stop raises when the observer thread was never
\* started: Thread.join's "cannot join thread before it is started"
JoinError == Exc("RuntimeError", FALSE)

\* stop() has set running to False and called observer.stop(); the main
\* thread waits in observer.join() for the observer thread, which ends
\* after the handler it is in
stopping ==
  /\ phase' = "stopping"
  /\ pc' = [pc EXCEPT !["main"] = "joining",
                      !["watch"] = IF pc["watch"] = "idle" THEN "off" ELSE @]
  /\ img' = [img EXCEPT !["main"] = NoPath]
  /\ UNCHANGED <<processed_files, print_queue>>

\* _signal_handler: self.stop(); sys.exit(0)
signal_handler ==
  /\ phase \in {"new", "initialized"} \/ (phase \in {"drain", "loop"} /\ running)
  /\ running' = FALSE
  /\ CASE phase = "new" ->
            \* folder_monitor is None: stop() returns and sys.exit(0) ends main()
            /\ phase' = "exited"
            /\ UNCHANGED <<pc, img, processed_files, print_queue>>
       [] phase = "initialized" ->
            \* join() raises out of the handler into main(): sys.exit(1)
            /\ phase' = "crashed"
            /\ UNCHANGED <<pc, img, processed_files, print_queue>>
       [] phase = "drain" /\ pc["main"] \in InCallback ->
            \* join() raises inside the try of _process_and_print
            /\ ExceptClause("main", JoinError)
            /\ UNCHANGED <<phase, processed_files>>
       [] phase = "drain" /\ pc["main"] \notin InCallback ->
            \* join() raises into run(): its handler re-raises, the stop() of
            \* its finally raises again, main() exits 1
            /\ phase' = "crashed"
            /\ pc' = [pc EXCEPT !["main"] = "stopped"]
            /\ UNCHANGED <<img, processed_files, print_queue>>
       [] phase = "loop" -> stopping
  /\ UNCHANGED <<listing, fs, printer, autoDelete>>

\* run's while loop finds running False: the finally clause calls stop()
loop_exit ==
  /\ phase = "loop"
  /\ pc["main"] = "loop"
  /\ ~running
  /\ stopping
  /\ UNCHANGED <<running, listing, fs, printer, autoDelete>>

\* observer.join() returns: stop() logs the error summary and returns,
\* and the process ends (sys.exit(0) in the handler, or run() returning)
stop_returns ==
  /\ phase = "stopping"
  /\ pc["watch"] = "off"
  /\ phase' = "exited"
  /\ pc' = [pc EXCEPT !["main"] = "stopped"]
  /\ UNCHANGED <<running, listing, img, processed_files, print_queue, fs,
                 printer, autoDelete>>

\* the program, the device and one signal; the watch folder is changed by
\* the program alone
NextShutdown ==
  \/ initialize /\ NoHistory
  \/ run /\ NoHistory
  \/ process_existing_files /\ NoHistory
  \/ start /\ NoHistory
  \/ process_print_queue /\ NoHistory
  \/ process_print_queue_next /\ NoHistory
  \/ \E f \in Files : on_created(f) /\ NoHistory
  \/ \E f \in Files : on_modified(f) /\ NoHistory
  \/ \E t \in Threads : process_and_print(t) /\ NoHistory
  \/ \E t \in Threads : monitor_and_delete(t) /\ NoHistory
  \/ DeviceChange /\ NoHistory
  \/ signal_handler /\ NoHistory
  \/ loop_exit /\ NoHistory
  \/ stop_returns /\ NoHistory

SpecShutdown == Init /\ [][NextShutdown]_vars

\* ------------------------------------------- the retry sweep, entry by entry
\* backlog counts the entries at the head of print_queue that were queued
\* when the running call of _process_print_queue began: whatever lies
\* behind them was appended since.

\* a step of _process_print_queue: the call begins with the whole queue as
\* its backlog, a pop takes one entry off it, and the call's end clears it
Swept ==
  /\ backlog' = IF pc'["main"] # "process" THEN 0
                ELSE IF pc["main"] = "loop" THEN Len(print_queue) - 1
                ELSE IF backlog > 0 THEN backlog - 1
                ELSE 0
  /\ UNCHANGED <<hvars, cvars, evars, lastEvent, events, fresh, raced, eh>>

\* the program and the device, the watch folder changed by the program alone
NextSweep ==
  \/ initialize /\ NoHistory
  \/ run /\ NoHistory
  \/ process_existing_files /\ NoHistory
  \/ start /\ NoHistory
  \/ process_print_queue /\ Swept
  \/ process_print_queue_next /\ Swept
  \/ \E f \in Files : on_created(f) /\ NoHistory
  \/ \E f \in Files : on_modified(f) /\ NoHistory
  \/ \E t \in Threads : process_and_print(t) /\ NoHistory
  \/ \E t \in Threads : monitor_and_delete(t) /\ NoHistory
  \/ DeviceChange /\ NoHistory

SpecSweep == Init /\ [][NextSweep]_vars

\* ------------------------------------ the retry sweep with a willing device
\* The main thread alone, no further file event arriving: the device, once
\* its printer-state is idle, stays idle; getPrinters answers; printFile
\* returns a job id.  The main thread keeps taking its steps.

\* getPrinters answered: a status read from an idle device says ready, so a
\* sweep over a non-empty queue pops its head
DeviceAnswers ==
  (printer = PRINTER_IDLE /\ print_queue # <<>>) => pc'["main"] = "process"

\* the steps of _process_and_print up to the submission when getPrinters
\* answers and printFile returns
ReadyPipeline(t) ==
  \/ \E e \in {DecodeError(img[t]), FileNotFound(img[t])} : TransformFails(t, e)
  \/ QueuedNotReady(t, get_printer_status(FALSE))
  \/ Submitted(t, get_printer_status(FALSE))

\* the device's printer-state becomes idle
DeviceRecovers ==
  /\ printer # PRINTER_IDLE
  /\ printer' = PRINTER_IDLE
  /\ UNCHANGED <<phase, running, listing, pc, img, processed_files,
                 print_queue, fs, autoDelete>>

\* what the main thread does next
MainRetry ==
  \/ initialize /\ NoHistory
  \/ run /\ NoHistory
  \/ process_existing_files /\ NoHistory
  \/ start /\ NoHistory
  \/ process_print_queue /\ DeviceAnswers /\ NoHistory
  \/ process_print_queue_next /\ DeviceAnswers /\ NoHistory
  \/ ReadyPipeline("main") /\ NoHistory
  \/ monitor_and_delete("main") /\ NoHistory

NextRetry ==
  \/ MainRetry
  \/ DeviceRecovers /\ NoHistory

SpecRetry ==
  /\ Init
  /\ [][NextRetry]_vars
  /\ WF_vars(MainRetry)
  /\ WF_vars(DeviceRecovers /\ NoHistory)

\* ------------------------------- CardImageHandler with any other callback
\* CardImageHandler(image_processor_callback) takes any callable: here one
\* that returns or raises as it likes, with the handler's events delivered
\* one at a time.
InitHandler ==
  /\ phase = "handler"
  /\ running = FALSE
  /\ listing = {}
  /\ pc = [t \in Threads |-> IF t = "watch" THEN "idle" ELSE "off"]
  /\ img = [t \in Threads |-> NoPath]
  /\ processed_files = {}
  /\ print_queue = <<>>
  /\ fs \in {f \in [Path -> FileStates] : \A p \in Path : p.pre > 0 => f[p] = "absent"}
  /\ printer = PRINTER_IDLE
  /\ autoDelete = FALSE
  /\ cups = "found"
  /\ handed = {}
  /\ raised = {}
  /\ startup = {}
  /\ drained = [f \in Files |-> 0]
  /\ ComponentsOff
  /\ ExtrasOff

\* the callback returns: _process_file is done
CallbackReturns ==
  /\ pc["watch"] = "process"
  /\ Return("watch")
  /\ UNCHANGED <<phase, running, listing, processed_files, print_queue, fs,
                 printer, autoDelete>>
  /\ NoHistory

\* the callback raises: the except clause of _process_file runs
CallbackRaises ==
  /\ pc["watch"] = "process"
  /\ Uncaught("watch")
  /\ UNCHANGED <<listing, print_queue, fs, printer, autoDelete>>
  /\ handed' = handed \ {img["watch"]}
  /\ raised' = raised \cup {img["watch"]}
  /\ UNCHANGED <<startup, drained, cvars, evars, xvars>>

NextHandler ==
  \/ \E f \in Files : on_created(f) /\ Hands("watch")
  \/ \E f \in Files : on_modified(f) /\ Hands("watch")
  \/ CallbackReturns
  \/ CallbackRaises
  \/ FsChange /\ NoHistory

SpecHandler == InitHandler /\ [][NextHandler]_vars

\* ------------------------------------ CardImageHandler, event by event
\* lastEvent keeps, of the last created or modified event the handler was
\* given: its kind and path, whether the path was in processed_files and
\* whether the file qualified when the event arrived, and whether the
\* handler invoked the callback for it.

\* the handler is given an event of this kind for WATCH_FOLDER/f
Handled(kind, f) ==
  /\ lastEvent' = [kind |-> kind, path |-> Orig(f),
                   seen |-> Orig(f) \in processed_files,
                   qualified |-> fs[Orig(f)] \notin {"absent", "empty"},
                   invoked |-> pc'["watch"] = "process"]
  /\ handed' = IF pc'["watch"] = "process" THEN handed \cup {Orig(f)} ELSE handed
  /\ UNCHANGED <<raised, startup, drained, cvars, evars, backlog, events,
                 fresh, raced, eh>>

NextDedup ==
  \/ \E f \in Files : on_created(f) /\ Handled("created", f)
  \/ \E f \in Files : on_modified(f) /\ Handled("modified", f)
  \/ CallbackReturns
  \/ CallbackRaises
  \/ FsChange /\ NoHistory

SpecDedup == InitHandler /\ [][NextDedup]_vars

\* ------------------------------------------- the program and its writers
\* Other programs create, write and remove files of the watch folder while
\* the observer runs.  The observer queues a created event for a new file
\* and a modified event for a write (FileSystemEventHandler leaves
\* on_deleted empty) and its thread dispatches them one at a time.  The
\* device is idle and answers, every file written is a readable image, and
\* no writer touches a file while the pipeline works on it.  fresh holds
\* the names whose file has become qualifying and was not handed to the
\* callback, or removed, since.
InitEvents ==
  /\ Init
  /\ printer = PRINTER_IDLE
  /\ cups = "found"
  /\ \A f \in Files : fs[Orig(f)] \in {"absent", "ok"}

\* observer.start() was called and the observer thread is alive
Observing == phase = "loop" /\ pc["watch"] # "off"

\* the observer queues an event of this kind for WATCH_FOLDER/f
Notify(kind, f) ==
  /\ Len(events) < MaxEvents
  /\ events' = Append(events, [kind |-> kind, name |-> f])

\* a writer may turn to WATCH_FOLDER/f
Writable(f) ==
  /\ Observing
  /\ \A t \in Threads : img[t].name # f

\* a step of writers: the program stays where it is
WriterStep ==
  UNCHANGED <<phase, running, listing, pc, img, processed_files, print_queue,
              printer, autoDelete, hvars, cvars, evars, backlog, lastEvent,
              raced, eh>>

\* a file is created, empty or with its content
file_created(f, content) ==
  /\ Writable(f)
  /\ fs[Orig(f)] = "absent"
  /\ fs' = [fs EXCEPT ![Orig(f)] = content]
  /\ Notify("created", f)
  /\ fresh' = IF content = "ok" THEN fresh \cup {f} ELSE fresh
  /\ WriterStep

\* the content of a file created empty is written
file_written(f) ==
  /\ Writable(f)
  /\ fs[Orig(f)] = "empty"
  /\ fs' = [fs EXCEPT ![Orig(f)] = "ok"]
  /\ Notify("modified", f)
  /\ fresh' = fresh \cup {f}
  /\ WriterStep

\* a file is removed
file_removed(f) ==
  /\ Writable(f)
  /\ fs[Orig(f)] # "absent"
  /\ fs' = [fs EXCEPT ![Orig(f)] = "absent"]
  /\ fresh' = fresh \ {f}
  /\ UNCHANGED events
  /\ WriterStep

\* a step in which thread t may invoke the callback: a name handed over is
\* fresh no more
Took(t) ==
  /\ fresh' = IF pc[t] # "process" /\ pc'[t] = "process"
              THEN fresh \ {img'[t].name} ELSE fresh
  /\ UNCHANGED <<hvars, cvars, evars, backlog, lastEvent, raced, eh>>

\* the observer thread dispatches its next event to the handler
dispatch ==
  /\ events # <<>>
  /\ IF Head(events).kind = "created"
     THEN on_created(Head(events).name)
     ELSE on_modified(Head(events).name)
  /\ events' = Tail(events)
  /\ Took("watch")

\* _process_and_print on thread t when nothing fails in it
Pipeline(t) ==
  /\ \/ ReadyPipeline(t)
     \/ \E outcome \in MonitorOutcomes : Finished(t, outcome)
     \/ \E outcome \in MonitorOutcomes : Deleted(t, outcome)
  /\ NoHistory

\* what the main thread does next
MainEvents ==
  \/ initialize /\ NoHistory
  \/ run /\ NoHistory
  \/ process_existing_files /\ Took("main") /\ UNCHANGED events
  \/ start /\ NoHistory
  \/ process_print_queue /\ DeviceAnswers /\ NoHistory
  \/ Pipeline("main")

\* what the observer thread does next
WatchEvents ==
  \/ dispatch
  \/ Pipeline("watch")

Writers ==
  \/ \E f \in Files, content \in {"empty", "ok"} : file_created(f, content)
  \/ \E f \in Files : file_written(f)
  \/ \E f \in Files : file_removed(f)

NextEvents ==
  \/ MainEvents
  \/ WatchEvents
  \/ Writers

\* both threads keep running; writers write when they like
SpecEvents ==
  /\ InitEvents
  /\ [][NextEvents]_vars
  /\ WF_vars(MainEvents)
  /\ WF_vars(WatchEvents)

\* ------------------------------------------ _monitor_print_job, poll by poll
\* One call of _monitor_print_job with the device answering each getJobs as
\* it likes.  mon.elapsed is time.time() - start_time in seconds at the head
\* of the while loop, mon.polls the calls of get_job_status made, mon.seen
\* the answer to the last one.

\* the rest of the program is not running while a component is followed
Detached(component) ==
  /\ phase = component
  /\ running = FALSE
  /\ listing = {}
  /\ pc = [t \in Threads |-> "off"]
  /\ img = [t \in Threads |-> NoPath]
  /\ processed_files = {}
  /\ print_queue = <<>>
  /\ fs = [p \in Path |-> "absent"]
  /\ printer = PRINTER_IDLE
  /\ autoDelete = FALSE
  /\ cups = "found"
  /\ handed = {}
  /\ raised = {}
  /\ startup = {}
  /\ drained = [f \in Files |-> 0]
  /\ ExtrasOff

InitMonitor ==
  /\ Detached("monitor")
  /\ mon = [MonOff EXCEPT !.pc = "loop"]
  /\ pic = PicOff
  /\ job = JobOff

\* a loop that never looks at the clock
NoTimeout(elapsed) == TRUE

\* the while condition: time.time() - start_time < timeout
InTime(elapsed) == elapsed < MONITOR_TIMEOUT

\* a test that lets job-state 7 pass
AbortTestAbove(job_state) == job_state > ABORT_THRESHOLD

\* if job_state >= 7
AbortTest(job_state) == job_state >= ABORT_THRESHOLD

\* one pass of the while loop: the condition holds, get_job_status is
\* called and takes `latency` seconds to answer `a`; the loop breaks, or
\* sleeps POLL_INTERVAL seconds
monitor_poll(a, latency) ==
  /\ mon.pc = "loop"
  /\ InTime(mon.elapsed)
  /\ mon.polls <= MaxPolls
  /\ LET job_status == get_job_status(a)
     IN mon' = IF job_status.none
               THEN [mon EXCEPT !.pc = "done", !.outcome = "Completed",
                                !.polls = @ + 1, !.seen = a]
               ELSE IF AbortTest(job_status.state)
               THEN [mon EXCEPT !.pc = "done", !.outcome = "Aborted",
                                !.polls = @ + 1, !.seen = a]
               ELSE [mon EXCEPT !.polls = @ + 1, !.seen = a,
                                !.elapsed = @ + latency + POLL_INTERVAL]
  /\ UNCHANGED <<pvars, hvars, evars, xvars, pic, job>>

\* the while condition fails: the loop ends without a verdict
monitor_timeout ==
  /\ mon.pc = "loop"
  /\ ~InTime(mon.elapsed)
  /\ mon' = [mon EXCEPT !.pc = "done", !.outcome = "TimedOut"]
  /\ UNCHANGED <<pvars, hvars, evars, xvars, pic, job>>

NextMonitor ==
  \/ \E a \in PollAnswers, latency \in 0..MaxLatency : monitor_poll(a, latency)
  \/ monitor_timeout

\* the thread running _monitor_print_job keeps running
SpecMonitor == InitMonitor /\ [][NextMonitor]_vars /\ WF_vars(NextMonitor)

\* ------------------------------------------------- Python float arithmetic
\* Natural numbers of any size are sequences of limbs, digits in base
\* 2^LimbBits with the most significant first and no leading zero; the
\* integers they are multiplied or divided by have at most SmallBits bits,
\* which keeps every intermediate value inside TLC's integers.
Radix == 2 ^ LimbBits

Front(x) == SubSeq(x, 1, Len(x) - 1)
Zeros(n) == [i \in 1..n |-> 0]

\* a limb sequence without its leading zero limbs
RECURSIVE Canon(_)
Canon(x) == IF x # <<>> /\ x[1] = 0 THEN Canon(Tail(x)) ELSE x

\* the limbs of an integer n >= 0, and back
RECURSIVE BigNat(_)
BigNat(n) == IF n = 0 THEN <<>> ELSE Append(BigNat(n \div Radix), n % Radix)

RECURSIVE BigToNat(_)
BigToNat(x) == IF x = <<>> THEN 0 ELSE BigToNat(Front(x)) * Radix + x[Len(x)]

\* x * n + carry
RECURSIVE MulLimbs(_, _, _)
MulLimbs(x, n, carry) ==
  IF x = <<>> THEN BigNat(carry)
  ELSE LET t == n * x[Len(x)] + carry
       IN Append(MulLimbs(Front(x), n, t \div Radix), t % Radix)

BigMulSmall(x, n) == Canon(MulLimbs(x, n, 0))

\* quotient (leading zeros kept) and remainder of x by b
RECURSIVE DivLimbs(_, _)
DivLimbs(x, b) ==
  IF x = <<>> THEN [q |-> <<>>, r |-> 0]
  ELSE LET p == DivLimbs(Front(x), b)
           t == p.r * Radix + x[Len(x)]
       IN [q |-> Append(p.q, t \div b), r |-> t % b]

BigDivSmall(x, b) == [q |-> Canon(DivLimbs(x, b).q), r |-> DivLimbs(x, b).r]

\* x + 1
RECURSIVE BigInc(_)
BigInc(x) ==
  IF x = <<>> THEN <<1>>
  ELSE IF x[Len(x)] + 1 < Radix THEN [x EXCEPT ![Len(x)] = @ + 1]
  ELSE Append(BigInc(Front(x)), 0)

\* x - y - borrow for sequences of one length, x >= y
RECURSIVE SubLimbs(_, _, _)
SubLimbs(x, y, borrow) ==
  IF x = <<>> THEN <<>>
  ELSE LET t == x[Len(x)] - y[Len(y)] - borrow
       IN Append(SubLimbs(Front(x), Front(y), IF t < 0 THEN 1 ELSE 0),
                 IF t < 0 THEN t + Radix ELSE t)

\* x - y for x >= y
BigSub(x, y) == Canon(SubLimbs(x, Zeros(Len(x) - Len(y)) \o y, 0))

\* x < y
RECURSIVE LimbsLess(_, _)
LimbsLess(x, y) ==
  IF x = <<>> THEN FALSE
  ELSE IF x[1] # y[1] THEN x[1] < y[1]
  ELSE LimbsLess(Tail(x), Tail(y))

BigLess(x, y) == IF Len(x) # Len(y) THEN Len(x) < Len(y) ELSE LimbsLess(x, y)

\* the number of binary digits of x
BigBitLen(x) ==
  IF x = <<>> THEN 0
  ELSE LimbBits * (Len(x) - 1)
       + (CHOOSE k \in 1..LimbBits : 2 ^ (k - 1) <= x[1] /\ x[1] < 2 ^ k)

\* x * 2^s
RECURSIVE BigShl(_, _)
BigShl(x, s) ==
  IF x = <<>> THEN <<>>
  ELSE IF s >= LimbBits THEN BigShl(Append(x, 0), s - LimbBits)
  ELSE IF s > SmallBits
  THEN BigMulSmall(BigMulSmall(x, 2 ^ SmallBits), 2 ^ (s - SmallBits))
  ELSE BigMulSmall(x, 2 ^ s)

\* x \div 2^s
RECURSIVE BigShr(_, _)
BigShr(x, s) ==
  IF x = <<>> THEN <<>>
  ELSE IF s >= LimbBits THEN BigShr(Front(x), s - LimbBits)
  ELSE IF s > SmallBits
  THEN BigDivSmall(BigDivSmall(x, 2 ^ SmallBits).q, 2 ^ (s - SmallBits)).q
  ELSE BigDivSmall(x, 2 ^ s).q

\* A non-negative float is [m, e]: m its significand, a natural number of
\* exactly DOUBLE_PRECISION binary digits, e the exponent of its last digit,
\* so that its value is m * 2^e; zero has the empty significand.  Every
\* operation rounds its exact result to the nearest float, ties to even.
FZero == [m |-> <<>>, e |-> 0]

\* a significand that rounding up has carried to one digit more is
\* shortened by its last digit, a zero
Renormalized(kept, e) ==
  IF BigBitLen(kept) > DOUBLE_PRECISION
  THEN [m |-> BigShr(kept, 1), e |-> e + 1]
  ELSE [m |-> kept, e |-> e]

\* keep, the leading DOUBLE_PRECISION digits, goes up by one when the
\* dropped digits are more than half a unit, or half a unit and keep is odd
RoundHalfEven(keep, dropped, half, e) ==
  Renormalized(IF \/ BigLess(half, dropped)
                  \/ (dropped = half /\ keep[Len(keep)] % 2 = 1)
               THEN BigInc(keep)
               ELSE keep, e)

\* x has s digits more than a significand holds; keep is x without them
RoundKept(x, e, s, keep) ==
  RoundHalfEven(keep, BigSub(x, BigShl(keep, s)), BigShl(<<1>>, s - 1), e + s)

\* x has s digits more (s > 0) or -s digits fewer than a significand
RoundDigits(x, e, s) ==
  IF s <= 0 THEN [m |-> BigShl(x, -s), e |-> e + s]
  ELSE RoundKept(x, e, s, BigShr(x, s))

\* the exact value x * 2^e rounded to a float
Round53(x, e) ==
  IF x = <<>> THEN FZero ELSE RoundDigits(x, e, BigBitLen(x) - DOUBLE_PRECISION)

\* the quotient d.q and remainder d.r of a * 2^s by b, as a float: a last
\* digit appended to the quotient says whether there was a remainder
Quotient(d, s) ==
  Round53(IF d.r # 0 THEN BigInc(BigShl(d.q, 1)) ELSE BigShl(d.q, 1), -(s + 1))

\* a / b for positive integers a, b: Python's true division.  The quotient
\* is taken to more than DOUBLE_PRECISION + 1 digits.
FDiv(a, b) ==
  Quotient(BigDivSmall(BigShl(BigNat(a), DOUBLE_PRECISION + 1 + SmallBits), b),
           DOUBLE_PRECISION + 1 + SmallBits)

\* n * x for an integer n and a float x
FMul(n, x) == Round53(BigMulSmall(x.m, n), x.e)

\* int(x) for a float below 2^DOUBLE_PRECISION
Trunc(x) == BigToNat(BigShr(x.m, -x.e))

\* x < y
FLess(x, y) ==
  IF y.m = <<>> THEN FALSE
  ELSE IF x.m = <<>> THEN TRUE
  ELSE IF x.e # y.e THEN x.e < y.e
  ELSE BigLess(x.m, y.m)

\* min(x, y)
FMin(x, y) == IF FLess(y, x) THEN y ELSE x

\* max(x, y)
FMax(x, y) == IF FLess(x, y) THEN y ELSE x

\* hi - lo for floats hi >= lo
FSub(hi, lo) ==
  IF lo.m = <<>> THEN hi
  ELSE Round53(BigSub(BigShl(hi.m, hi.e - lo.e), lo.m), lo.e)

\* abs(x - y)
FAbsDiff(x, y) == IF FLess(x, y) THEN FSub(y, x) ELSE FSub(x, y)

\* ------------------------------------------- ImageProcessor.process_image
\* One call of process_image on an image PIL has opened: pic.mode and
\* pic.size are the image's, pic.scaled the size after the scaling resize,
\* pic.box the crop window and pic.out the size of what is saved.
Modes == {"RGB", "RGBA", "LA", "P", "L", "CMYK"}

\* ImageProcessor.__init__: self.target_aspect = target_width / target_height
target_aspect == FDiv(TARGET_WIDTH, TARGET_HEIGHT)

\* the literal 0.1: the float nearest to 1/10
ASPECT_TOLERANCE == FDiv(1, 10)

\* a crop window that runs to the scaled image's far edges
CropBoxToEdge(new_width, new_height) ==
  LET left == (new_width - TARGET_WIDTH) \div 2
      top == (new_height - TARGET_HEIGHT) \div 2
  IN [left |-> left, top |-> top, right |-> new_width, bottom |-> new_height]

\* the centred crop window: // is floor division, as \div is
CropBox(new_width, new_height) ==
  LET left == (new_width - TARGET_WIDTH) \div 2
      top == (new_height - TARGET_HEIGHT) \div 2
  IN [left |-> left, top |-> top,
      right |-> left + TARGET_WIDTH, bottom |-> top + TARGET_HEIGHT]

\* _smart_resize_crop lines 82-89: the scaled image is cropped to the window
Cropped(new_size, box) ==
  [branch |-> "crop", scaled |-> new_size, box |-> box,
   out |-> <<box.right - box.left, box.bottom - box.top>>]

\* _smart_resize_crop lines 79-80: int(orig_width * scale), int(orig_height * scale)
ScaledSize(size, scale) ==
  <<Trunc(FMul(size[1], scale)), Trunc(FMul(size[2], scale))>>

\* _smart_resize_crop lines 76-89, the branch that scales and crops
ScaleAndCrop(new_size) == Cropped(new_size, CropBox(new_size[1], new_size[2]))

\* ImageProcessor._smart_resize_crop on an image of the given size: resize
\* returns an image of the size asked for, crop one of the window's size
smart_resize_crop(size) ==
  IF FLess(FAbsDiff(FDiv(size[1], size[2]), target_aspect), ASPECT_TOLERANCE)
  THEN [branch |-> "stretch", scaled |-> <<0, 0>>, box |-> PicOff.box,
        out |-> <<TARGET_WIDTH, TARGET_HEIGHT>>]
  ELSE ScaleAndCrop(ScaledSize(size, FMax(FDiv(TARGET_WIDTH, size[1]),
                                          FDiv(TARGET_HEIGHT, size[2]))))

\* process_image line 44: what the call leaves of the image
Processed(image, r) ==
  [image EXCEPT !.pc = "resized", !.branch = r.branch, !.scaled = r.scaled,
                !.box = r.box, !.out = r.out]

InitTransform ==
  /\ Detached("transform")
  /\ mon = MonOff
  /\ job = JobOff
  /\ \E mode \in Modes, w \in 1..MaxWidth, h \in 1..MaxHeight :
       pic = [PicOff EXCEPT !.pc = "opened", !.mode = mode, !.size = <<w, h>>]

\* process_image lines 33-41: RGBA, LA and P are pasted on a white RGB
\* canvas of the same size, any other mode but RGB is converted
to_rgb ==
  /\ pic.pc = "opened"
  /\ pic' = [pic EXCEPT !.pc = "rgb",
                        !.mode = IF pic.mode \in {"RGBA", "LA", "P"} THEN "RGB"
                                 ELSE IF pic.mode # "RGB" THEN "RGB"
                                 ELSE pic.mode]
  /\ UNCHANGED <<pvars, hvars, evars, xvars, mon, job>>

\* process_image line 44: processed = self._smart_resize_crop(img)
resize_crop ==
  /\ pic.pc = "rgb"
  /\ pic' = Processed(pic, smart_resize_crop(pic.size))
  /\ UNCHANGED <<pvars, hvars, evars, xvars, mon, job>>

\* process_image lines 46-59: _optimize_for_print keeps size and mode, the
\* result is saved
save ==
  /\ pic.pc = "resized"
  /\ pic' = [pic EXCEPT !.pc = "saved"]
  /\ UNCHANGED <<pvars, hvars, evars, xvars, mon, job>>

NextTransform ==
  \/ to_rgb
  \/ resize_crop
  \/ save

SpecTransform == InitTransform /\ [][NextTransform]_vars

\* ------------------------------------------- PrintController.print_image
\* The calls of print_image on a file that exists: job.options is the
\* options argument of the last call (None and {} are both the empty
\* mapping: `if options` treats them alike), job.print_options the mapping
\* that call handed to printFile, job.earlier the one the call before did.

\* the dict literal of lines 52-60
DefaultOptions ==
  [k \in {"media", "MediaType", "Resolution", "ColorModel", "PageSize",
          "FitToPage", "Scaling"} |->
     CASE k = "media" -> "Custom.2.5x3.5in"
       [] k = "MediaType" -> "Cardstock"
       [] k = "Resolution" -> "300dpi"
       [] k = "ColorModel" -> "RGB"
       [] k = "PageSize" -> "Custom.2.5x3.5in"
       [] k = "FitToPage" -> "False"
       [] k = "Scaling" -> "100"]

\* what callers pass: any mapping of some of these keys, two of them keys
\* of the defaults, to these values
OptionKeys == {"media", "Scaling", "copies"}
OptionValues == {"A4", "2"}
CallerOptions ==
  UNION {[keys -> OptionValues] : keys \in SUBSET OptionKeys}

\* dict.update: the entries of `options` replace or extend those of `base`
Update(base, options) ==
  [k \in DOMAIN base \cup DOMAIN options |->
     IF k \in DOMAIN options THEN options[k] ELSE base[k]]

\* defaults kept in one dict that every call updates in place
DefaultsCarried(previous) ==
  IF previous = NoOptions THEN DefaultOptions ELSE previous

\* print_options is built anew from the literal in every call, whatever
\* the call before handed to printFile
DefaultsOf(previous) == DefaultOptions

InitPrint ==
  /\ Detached("print")
  /\ mon = MonOff
  /\ pic = PicOff
  /\ job = JobOff

\* PrintController.print_image(image_path, options) up to conn.printFile
print_image(options) ==
  /\ job.calls < MaxCalls
  /\ LET print_options == IF options # NoOptions
                          THEN Update(DefaultsOf(job.print_options), options)
                          ELSE DefaultsOf(job.print_options)
     IN job' = [calls |-> job.calls + 1, options |-> options,
                print_options |-> print_options, earlier |-> job.print_options]
  /\ UNCHANGED <<pvars, hvars, evars, xvars, mon, pic>>

NextPrint == \E options \in CallerOptions : print_image(options)

SpecPrint == InitPrint /\ [][NextPrint]_vars

\* ----------------------------------------------------------- ErrorHandler
\* One ErrorHandler and the errors it is given: eh.error_count and
\* eh.last_errors are its fields, eh.given every error handed to
\* handle_error since __init__ or the last reset_error_count, in order.
\* An error_info is told from another by the error it was built from.
ErrorsGiven == {Exc("UnidentifiedImageError", FALSE), Exc("IPPError", TRUE)}

\* list[-n:]: the last n elements, the whole list when it has fewer
Latest(list, n) ==
  SubSeq(list, IF Len(list) > n THEN Len(list) - n + 1 ELSE 1, Len(list))

\* a list that gives up its newest entry when it is full
KeptOldest(errors) ==
  IF Len(errors) > LAST_ERRORS_KEPT THEN Front(errors) ELSE errors

\* if len(self.last_errors) > 10: self.last_errors.pop(0)
Kept(errors) ==
  IF Len(errors) > LAST_ERRORS_KEPT THEN Tail(errors) ELSE errors

InitErrors ==
  /\ Detached("errors")
  /\ ComponentsOff

\* ErrorHandler.handle_error(error, ...), lines 75-85
record_error(error) ==
  /\ Len(eh.given) < MaxErrors
  /\ eh' = [error_count |-> eh.error_count + 1,
            last_errors |-> Kept(Append(eh.last_errors, error)),
            given |-> Append(eh.given, error)]
  /\ UNCHANGED <<pvars, hvars, cvars, evars, backlog, lastEvent, events, fresh,
                 raced>>

\* ErrorHandler.reset_error_count
reset_error_count ==
  /\ eh' = EhOff
  /\ UNCHANGED <<pvars, hvars, cvars, evars, backlog, lastEvent, events, fresh,
                 raced>>

\* ErrorHandler.get_error_summary
get_error_summary ==
  [total_errors |-> eh.error_count,
   recent_errors |-> Latest(eh.last_errors, RECENT_ERRORS)]

NextErrors ==
  \/ \E error \in ErrorsGiven : record_error(error)
  \/ reset_error_count

SpecErrors == InitErrors /\ [][NextErrors]_vars

\* ------------------------------------- the retry queue, statement by statement
\* print_queue is a plain list shared by the two threads.  The observer
\* thread appends to it inside the callback; the sweep tests it, reads the
\* device status, tests it again and pops its head, one statement at a
\* time, and the other thread may run between any two of them.  append and
\* pop(0) themselves are single list operations.  A pop(0) of an empty list
\* raises IndexError.

\* every thread would run the sweep
EveryThread == Threads

\* the threads that call _process_print_queue: run() alone does
Sweepers == {"main"}

\* thread t is in neither the sweep nor the callback
Home(t) == "off"

\* how a run of _process_and_print ends for the queue: nothing appended,
\* the artifact appended because the device was not ready (line 82), or
\* the path it was given appended because handle_error said retry (102)
CallOutcomes == {"done", "not ready", "retry"}

Appends(outcome) == outcome # "done"

Requeued(path, outcome) ==
  IF outcome = "not ready" THEN QueuedWhenNotReady(path, OutputPath(path))
  ELSE path

CanAppend(entry) ==
  /\ Len(print_queue) < MaxQueue
  /\ entry.pre <= MaxPrefix

InitQueue ==
  /\ Detached("queue")
  /\ ComponentsOff

\* raced counts the appends the observer thread made since the sweep last
\* tested the queue and before it popped
QueueStep(t) ==
  /\ phase = "queue"
  /\ raced' = IF t = "main" /\ pc'[t] \in {"pop", Home(t)} THEN 0
              ELSE IF /\ t = "watch"
                      /\ pc["main"] = "pop"
                      /\ Len(print_queue') > Len(print_queue)
                   THEN raced + 1
              ELSE raced
  /\ UNCHANGED <<phase, running, listing, processed_files, fs, printer,
                 autoDelete, hvars, cvars, evars, backlog, lastEvent, events,
                 fresh, eh>>

\* if not self.print_queue: return
sweep_enter(t) ==
  /\ t \in Sweepers
  /\ pc[t] = Home(t)
  /\ print_queue # <<>>
  /\ pc' = [pc EXCEPT ![t] = "status"]
  /\ UNCHANGED <<img, print_queue>>
  /\ QueueStep(t)

\* status = get_printer_status(), before the loop: return unless ready
sweep_status(t, ready) ==
  /\ pc[t] = "status"
  /\ pc' = [pc EXCEPT ![t] = IF ready THEN "while" ELSE Home(t)]
  /\ UNCHANGED <<img, print_queue>>
  /\ QueueStep(t)

\* while self.print_queue and status.get('is_ready')
sweep_while(t) ==
  /\ pc[t] = "while"
  /\ pc' = [pc EXCEPT ![t] = IF print_queue # <<>> THEN "pop" ELSE Home(t)]
  /\ UNCHANGED <<img, print_queue>>
  /\ QueueStep(t)

\* item = self.print_queue.pop(0)
sweep_pop(t) ==
  /\ pc[t] = "pop"
  /\ IF print_queue = <<>>
     THEN /\ pc' = [pc EXCEPT ![t] = "IndexError"]
          /\ UNCHANGED <<img, print_queue>>
     ELSE /\ pc' = [pc EXCEPT ![t] = "item"]
          /\ img' = [img EXCEPT ![t] = Head(print_queue)]
          /\ print_queue' = Tail(print_queue)
  /\ QueueStep(t)

\* _process_and_print(item), which may append an entry, and the status
\* read that follows it in the loop
sweep_item(t, outcome, ready) ==
  /\ pc[t] = "item"
  /\ Appends(outcome) => CanAppend(Requeued(img[t], outcome))
  /\ print_queue' = IF Appends(outcome)
                    THEN Append(print_queue, Requeued(img[t], outcome))
                    ELSE print_queue
  /\ img' = [img EXCEPT ![t] = NoPath]
  /\ pc' = [pc EXCEPT ![t] = IF ready THEN "while" ELSE Home(t)]
  /\ QueueStep(t)

\* the handler invokes the callback on the observer thread
callback_enter(f) ==
  /\ pc["watch"] = Home("watch")
  /\ pc' = [pc EXCEPT !["watch"] = "process"]
  /\ img' = [img EXCEPT !["watch"] = Orig(f)]
  /\ UNCHANGED print_queue
  /\ QueueStep("watch")

\* the callback returns, having appended an entry or not
callback_return(outcome) ==
  /\ pc["watch"] = "process"
  /\ Appends(outcome) => CanAppend(Requeued(img["watch"], outcome))
  /\ print_queue' = IF Appends(outcome)
                    THEN Append(print_queue, Requeued(img["watch"], outcome))
                    ELSE print_queue
  /\ img' = [img EXCEPT !["watch"] = NoPath]
  /\ pc' = [pc EXCEPT !["watch"] = Home("watch")]
  /\ QueueStep("watch")

NextQueue ==
  \/ \E t \in Threads : sweep_enter(t)
  \/ \E t \in Threads, ready \in BOOLEAN : sweep_status(t, ready)
  \/ \E t \in Threads : sweep_while(t)
  \/ \E t \in Threads : sweep_pop(t)
  \/ \E t \in Threads, outcome \in CallOutcomes, ready \in BOOLEAN :
       sweep_item(t, outcome, ready)
  \/ \E f \in Files : callback_enter(f)
  \/ \E outcome \in CallOutcomes : callback_return(outcome)

SpecQueue == InitQueue /\ [][NextQueue]_vars

\* ------------------------------------------------------------- the claims
\* copies of p in the queue q
Count(p, q) == Cardinality({i \in 1..Len(q) : q[i] = p})

\* the callback is invoked for path p on the watch thread in this step
Invoked(p) ==
  /\ pc["watch"] = "idle"
  /\ pc'["watch"] = "process"
  /\ img'["watch"] = p

\* p qualifies when _process_file looks at it
Qualifies(p) == fs[p] \notin {"absent", "empty"}

\* C1: a modified event for a path that is in processed_files does not
\* invoke the callback: the handler's state and the watch thread stay as
\* they are, however often the event is repeated.
C1_ModifiedIsIdempotent ==
  [][\A f \in Files :
       (Orig(f) \in processed_files /\ on_modified(f))
         => (~Invoked(Orig(f)) /\ UNCHANGED <<pc, img, processed_files>>)]_vars

\* C1 witness: an accepted path that still qualifies, with the watch thread
\* free to take its next modified event
C1_Witness ==
  /\ phase = "loop"
  /\ pc["watch"] = "idle"
  /\ Orig("a.png") \in processed_files
  /\ Qualifies(Orig("a.png"))

\* C2: once the callback has raised for a path, the path is out of
\* processed_files until it is handed over again, and the next created or
\* modified event for it, if it still qualifies, invokes the callback.
C2_RetryAfterRaise ==
  [][\A f \in Files :
       /\ (Orig(f) \in raised' \ handed') => Orig(f) \notin processed_files'
       /\ ( /\ Orig(f) \in raised \ handed
            /\ Qualifies(Orig(f))
            /\ pc["watch"] = "idle"
            /\ (on_created(f) \/ on_modified(f)) )
          => (Invoked(Orig(f)) /\ Orig(f) \in processed_files')]_vars

\* C2 witness: a path whose callback raised is in the callback again
C2_Witness ==
  /\ Orig("a.png") \in raised
  /\ pc["watch"] = "process"
  /\ img["watch"] = Orig("a.png")
  /\ Orig("a.png") \in processed_files

\* C3: a path is in processed_files exactly if it was handed to the
\* callback at least once and its processing has not failed since.
C3_SeenSetIsHanded ==
  \A p \in Path : p \in processed_files <=> p \in handed

\* C4: a sweep that reads a not-ready status pops nothing, and an entry the
\* sweep popped, whose file is still there and readable, and that was not
\* submitted, is back in the queue once more than the rest of the queue
\* held it.
C4_SweepKeepsUnsubmitted ==
  [][/\ (process_print_queue_next /\ printer # PRINTER_IDLE)
          => print_queue' = print_queue
     /\ ( /\ phase = "loop"
          /\ pc["main"] = "process"
          /\ fs[img["main"]] = "ok"
          /\ pc'["main"] = "sweep" )
        => Count(img["main"], print_queue') = Count(img["main"], print_queue) + 1]_vars

\* C5: every entry of print_queue is an original source path, none a
\* print_<name> artifact.
C5_QueueHoldsOriginals ==
  \A i \in 1..Len(print_queue) : print_queue[i].pre = 0

\* C6: once run is in its main loop, whenever printFile raises, whatever
\* the error, the file (or its artifact) is appended to print_queue.
C6_SubmitFailureIsQueued ==
  [][\A t \in Threads, raises \in BOOLEAN, e \in SubmitErrors :
       (phase = "loop" /\ SubmitFails(t, get_printer_status(raises), e))
         => \/ print_queue' = Append(print_queue, img[t])
            \/ print_queue' = Append(print_queue, OutputPath(img[t]))]_vars

\* C7: a file that cannot be decoded is never appended to print_queue.
C7_UnreadableIsNotQueued ==
  [][\A t \in Threads :
       ( /\ pc[t] = "process"
         /\ fs[img[t]] \in {"empty", "bad"}
         /\ TransformFails(t, DecodeError(img[t])) )
         => print_queue' = print_queue]_vars

\* C8: with auto-delete on, an original file is deleted only after its job
\* was seen Completed, never after Aborted or TimedOut.
C8_DeleteOnlyWhenCompleted ==
  [][\A t \in Threads, outcome \in MonitorOutcomes :
       (img[t].pre = 0 /\ Deleted(t, outcome)) => outcome = "Completed"]_vars

\* C9: the two threads are never inside _process_and_print at once.
C9_ProcessingIsSerialized ==
  ~(pc["main"] \in InCallback /\ pc["watch"] \in InCallback)

\* C10: every step of _process_and_print, failing or not, either goes on
\* inside it or returns to its caller: main() has not crashed, the running
\* flag and processed_files are as they were, and the other thread is
\* where it was.
C10_ErrorsStayInside ==
  [][\A t \in Threads :
       (pc[t] \in InCallback /\ pc'[t] # pc[t])
         => /\ pc'[t] \in {"monitor", ReturnPc(t)}
            /\ phase' = phase
            /\ running' = running
            /\ processed_files' = processed_files
            /\ \A u \in Threads \ {t} : pc'[u] = pc[u]]_vars

\* C10 witness: the except clause has queued a file for retry, the main
\* loop is at its head and running, and the watch thread is processing a
\* file that arrived later
C10_Witness ==
  /\ phase = "loop"
  /\ running
  /\ pc["main"] = "loop"
  /\ \E i \in 1..Len(print_queue) : print_queue[i].pre = 0
  /\ pc["watch"] = "process"

\* C11: while the startup drain runs the observer thread does not exist, so
\* no created or modified event is handled; no file is handed over twice by
\* the drain; and when the watch has been started every file the watch
\* folder held when run() listed it was handed to the pipeline exactly once
\* by the drain, and no other file was.
C11_DrainBeforeWatch ==
  /\ phase \in {"new", "initialized", "drain"} => pc["watch"] = "off"
  /\ \A f \in Files : drained[f] <= 1
  /\ phase = "loop" =>
       \A f \in Files : drained[f] = (IF f \in startup THEN 1 ELSE 0)

\* C11 witness: the watch is started, the folder held both files at
\* startup, one of them empty, and the drain handed each of them over
C11_Witness ==
  /\ phase = "loop"
  /\ pc["watch"] = "idle"
  /\ startup = Files
  /\ fs[Orig("a.png")] = "empty"
  /\ \A f \in Files : drained[f] = 1

\* C12: with the main loop running, the device idle from now on and every
\* submission accepted, every entry is taken out of print_queue for good:
\* from some moment on the print_queue is empty.
C12_QueueEmpties ==
  (phase = "loop" /\ running /\ printer = PRINTER_IDLE) ~> [](print_queue = <<>>)

\* C13: a poll that finds the job listed with a job-state of 7 or more ends
\* the monitoring as Aborted at that poll, and once the monitoring has ended
\* no further poll is made.
C13_AbortedAtThatPoll ==
  [][/\ ( /\ mon'.polls = mon.polls + 1
          /\ mon'.seen.listed
          /\ mon'.seen.state >= ABORT_THRESHOLD )
        => (mon'.pc = "done" /\ mon'.outcome = "Aborted")
     /\ mon.pc = "done" => mon' = mon]_vars

\* C13 witness: the third poll found the job with job-state 7 and the
\* monitoring ended as Aborted
C13_Witness ==
  /\ mon.pc = "done"
  /\ mon.outcome = "Aborted"
  /\ mon.polls = 3
  /\ mon.seen.state = ABORT_THRESHOLD

\* C14: whatever the device answers, at most MONITOR_TIMEOUT \div
\* POLL_INTERVAL (30) polls are made, no poll is made once MONITOR_TIMEOUT
\* seconds have elapsed, and the monitoring ends.
C14_MonitorTerminates ==
  /\ [](mon.polls <= MaxPolls)
  /\ [][mon'.polls # mon.polls => mon.elapsed < MONITOR_TIMEOUT]_vars
  /\ <>(mon.pc = "done")

\* C14 witness: the job stayed in a non-terminal state through 30 polls and
\* the loop ended on the clock
C14_Witness ==
  /\ mon.pc = "done"
  /\ mon.outcome = "TimedOut"
  /\ mon.polls = MaxPolls
  /\ mon.seen.listed
  /\ mon.seen.state < ABORT_THRESHOLD

\* C15: whatever the source's mode and (positive) size, what process_image
\* saves is RGB and exactly TARGET_WIDTH x TARGET_HEIGHT, in the stretch
\* branch and in the scale-and-crop branch.
C15_OutputIsTargetSize ==
  pic.pc \in {"resized", "saved"} =>
    /\ pic.out = <<TARGET_WIDTH, TARGET_HEIGHT>>
    /\ pic.mode = "RGB"
    /\ pic.branch \in {"stretch", "crop"}

\* C15 witness: a saved image that went through scale-and-crop with a
\* scaled size larger than the target on one axis
C15_Witness ==
  /\ pic.pc = "saved"
  /\ pic.branch = "crop"
  /\ pic.scaled[1] > TARGET_WIDTH
  /\ pic.out = <<TARGET_WIDTH, TARGET_HEIGHT>>

\* C16: in the scale-and-crop branch the scaled image covers the target on
\* both axes, exactly on at least one, and the crop window lies inside it.
C16_ScaledCoversTarget ==
  pic.branch = "crop" =>
    /\ pic.scaled[1] >= TARGET_WIDTH
    /\ pic.scaled[2] >= TARGET_HEIGHT
    /\ pic.scaled[1] = TARGET_WIDTH \/ pic.scaled[2] = TARGET_HEIGHT
    /\ pic.box.left >= 0
    /\ pic.box.top >= 0
    /\ pic.box.right <= pic.scaled[1]
    /\ pic.box.bottom <= pic.scaled[2]

\* C17: what print_image hands to printFile has the caller's value for
\* every key the caller supplied and the default's value for every other
\* key of the defaults, and nothing else, in a first call and in a call
\* that follows one with overrides.
C17_OverridesOverDefaults ==
  job.calls > 0 =>
    /\ DOMAIN job.print_options = DOMAIN DefaultOptions \cup DOMAIN job.options
    /\ \A k \in DOMAIN job.options : job.print_options[k] = job.options[k]
    /\ \A k \in DOMAIN DefaultOptions \ DOMAIN job.options :
         job.print_options[k] = DefaultOptions[k]

\* C17 witness: the first call overrode media and Scaling, the second
\* supplied only copies and got the defaults for media and Scaling
C17_Witness ==
  /\ job.calls = 2
  /\ job.earlier["media"] = "A4"
  /\ job.earlier["Scaling"] = "2"
  /\ DOMAIN job.options = {"copies"}
  /\ job.print_options["copies"] = "2"
  /\ job.print_options["media"] = "Custom.2.5x3.5in"
  /\ job.print_options["Scaling"] = "100"

\* C18: a termination signal sets running to False and has stop() run to
\* its end, the watch stopped and the error summary logged; when the
\* process has ended that way no thread is in or enters the pipeline and
\* nothing is popped from print_queue.
C18_SignalStopsEverything ==
  [][/\ signal_handler => (~running' /\ phase' \in {"stopping", "exited"})
     /\ phase' = "exited" =>
          (~running' /\ \A t \in Threads : pc'[t] \in {"off", "stopped"})
     /\ phase = "exited" =>
          UNCHANGED <<pc, img, print_queue, processed_files, fs>>]_vars

\* C19: when the connection to the device fails at startup, initialize
\* raises and the process ends with exit status 1: no folder monitor
\* exists, the drain and the watch never run, no file is handed to the
\* pipeline, queued or written.
C19_ConnectionFailureIsFatal ==
  ~connect(cups) =>
    /\ phase \in {"new", "failed"}
    /\ phase = "failed" => ExitCode = 1
    /\ ~running
    /\ \A t \in Threads : pc[t] = "off" /\ img[t] = NoPath
    /\ listing = {}
    /\ processed_files = {}
    /\ print_queue = <<>>
    /\ \A p \in Path : p.pre > 0 => fs[p] = "absent"

\* C19 witness: the connection failed with a printable file waiting in
\* the watch folder
C19_Witness ==
  /\ cups = "missing"
  /\ phase = "failed"
  /\ fs[Orig("a.png")] = "ok"
  /\ printer = PRINTER_IDLE

\* C20: with auto-delete on, when image_path.unlink() fails after the
\* print the file is not appended to print_queue.
C20_DeleteFailureNotQueued ==
  [][\A t \in Threads, outcome \in MonitorOutcomes :
       \A e \in UnlinkErrors(img[t]) \cup {FileNotFound(img[t])} :
         (pc[t] = "monitor" /\ autoDelete /\ DeleteFails(t, outcome, e))
           => print_queue' = print_queue]_vars

\* C21: within one call of _process_print_queue the entries popped are
\* those that were queued when the call began, each once and from the
\* head: an entry appended during the call is not popped by it.
C21_SweepAttemptsOnce ==
  [][(pc["main"] \in {"loop", "sweep"} /\ pc'["main"] = "process")
       => /\ img'["main"] = Head(print_queue)
          /\ print_queue' = Tail(print_queue)
          /\ pc["main"] = "sweep" => backlog > 0]_vars

\* C22: every call of _process_print_queue returns to the main loop.
C22_SweepReturns ==
  (phase = "loop" /\ pc["main"] \in {"sweep", "process", "monitor"})
    ~> (pc["main"] = "loop")

\* C23: whenever the startup drain or a created or modified event hands a
\* path to the callback, the path is a file that can be read and is not
\* empty at that moment.
C23_OnlyQualifyingEnter ==
  [][\A t \in Threads :
       ( /\ pc[t] \notin InCallback
         /\ pc'[t] = "process"
         /\ (t = "watch" \/ phase = "drain") )
         => fs[img'[t]] \notin {"absent", "empty"}]_vars

\* C24: a created event for a file that qualifies invokes the callback,
\* once, whether the path is in processed_files or not; an event that
\* invokes the callback for a path that is in processed_files is a created
\* event, never a modified one; a file that does not qualify is not
\* handed over; and the callback that runs is the one of the last event.
C24_CreatedAlwaysAttempts ==
  /\ (lastEvent.kind = "created" /\ lastEvent.qualified) => lastEvent.invoked
  /\ (lastEvent.invoked /\ lastEvent.seen) => lastEvent.kind = "created"
  /\ lastEvent.invoked => lastEvent.qualified
  /\ pc["watch"] = "process" =>
       (lastEvent.invoked /\ img["watch"] = lastEvent.path)

\* C24 witness: a created event for a path already in processed_files
\* has invoked the callback, which is running
C24_Witness ==
  /\ lastEvent.kind = "created"
  /\ lastEvent.seen
  /\ lastEvent.invoked
  /\ pc["watch"] = "process"
  /\ img["watch"] = Orig("a.png")

\* C25: error_count is the number of errors given since the last reset;
\* last_errors holds at most 10 entries, the most recent ones given, in
\* the order they were given; get_error_summary returns that count and
\* the latest 5 errors, or all of them when fewer were given.
C25_ErrorSummary ==
  LET n == Len(eh.given)
      kept == Len(eh.last_errors)
      recent == get_error_summary.recent_errors
  IN /\ eh.error_count = n
     /\ kept = (IF n < LAST_ERRORS_KEPT THEN n ELSE LAST_ERRORS_KEPT)
     /\ \A i \in 1..kept : eh.last_errors[i] = eh.given[n - kept + i]
     /\ get_error_summary.total_errors = n
     /\ Len(recent) = (IF n < RECENT_ERRORS THEN n ELSE RECENT_ERRORS)
     /\ \A i \in 1..Len(recent) : recent[i] = eh.given[n - Len(recent) + i]

\* C25 witness: twelve errors were given, the first an IPPError and the
\* second not; the list has dropped both and kept the last ten
C25_Witness ==
  /\ eh.error_count = 12
  /\ Len(eh.last_errors) = LAST_ERRORS_KEPT
  /\ eh.given[1] = Exc("IPPError", TRUE)
  /\ eh.given[2] # eh.given[1]
  /\ eh.last_errors[1] = eh.given[3]
  /\ eh.given[12] # eh.given[11]

\* the absolute value of an integer
Abs(n) == IF n < 0 THEN -n ELSE n

\* |w/h - TARGET_WIDTH/TARGET_HEIGHT| < 1/10 in exact arithmetic
NearTarget(w, h) ==
  10 * Abs(TARGET_HEIGHT * w - TARGET_WIDTH * h) < TARGET_HEIGHT * h

\* |w/h - TARGET_WIDTH/TARGET_HEIGHT| <= 1/10 in exact arithmetic
WithinTarget(w, h) ==
  10 * Abs(TARGET_HEIGHT * w - TARGET_WIDTH * h) <= TARGET_HEIGHT * h

\* the size w x h scaled by max(TARGET_WIDTH/w, TARGET_HEIGHT/h) in exact
\* arithmetic, each side rounded down
ExactScaled(w, h) ==
  IF TARGET_WIDTH * h >= TARGET_HEIGHT * w
  THEN <<TARGET_WIDTH, (TARGET_WIDTH * h) \div w>>
  ELSE <<(TARGET_HEIGHT * w) \div h, TARGET_HEIGHT>>

C27_CompletedOnlyWhenUnlisted ==
  (mon.pc = "done" /\ mon.outcome = "Completed")
    => (~mon.seen.failed /\ ~mon.seen.listed)

\* C28: a file that has become qualifying in the watch folder after the
\* program started is handed to the callback, unless it is removed first.
C28_QualifyingIsHanded ==
  \A f \in Files : (f \in fresh) ~> (f \notin fresh)

\* C29: only the sweep of the main loop takes entries off the retry queue;
\* however its statements interleave with appends of the observer thread,
\* no pop(0) finds the list empty, and every step leaves the queue as it
\* is, appends one entry at its tail, or is the main thread's pop, which
\* takes the head into item and leaves the rest in order.
C29_QueueIntact ==
  [][ /\ \A t \in Threads : pc'[t] # "IndexError"
      /\ \/ print_queue' = print_queue
         \/ \E p \in Path : print_queue' = Append(print_queue, p)
         \/ /\ pc["main"] = "pop"
            /\ print_queue # <<>>
            /\ img'["main"] = Head(print_queue)
            /\ print_queue' = Tail(print_queue) ]_vars

\* the observer thread appended while the sweep stood between its test of
\* the queue and its pop, and the pop took the old head
C29_Witness ==
  /\ pc["main"] = "item"
  /\ raced > 0
  /\ print_queue # <<>>
====
